---- MODULE Spec2Model ----
(***************************************************************************)
(* Model of fireflycore/go-logger.                                         *)
(*                                                                         *)
(*   SpecAsync / SpecAsyncFair : AsyncLogger, the bounded relay            *)
(*       (NewAsyncLogger, init, Write) with concurrent producers, the      *)
(*       channel and the single consumer goroutine.                        *)
(*   SpecLogger : Conf, WithHandle and New (the dispatcher), and the       *)
(*       records emitted through the logger New returns.                   *)
(*   SpecCore : remoteCore (NewRemoteCore, Enabled, With, Check, Write),   *)
(*       the remote sink and the handles derived from it.                  *)
(*   SpecWrite : remoteCore.Write applied once to drawn standing fields    *)
(*       and call-site fields.                                             *)
(***************************************************************************)
EXTENDS Integers, Sequences, FiniteSets, TLC

(* ----------------------------- bounds --------------------------------- *)

\* Largest channel capacity passed to NewAsyncLogger.
MaxSize == 2

\* Number of Write calls the producers issue in one behaviour.
MaxWrites == 4

\* Most fields given to one With call or one emit.
MaxFields == 1

(* --------------------------- small domains ---------------------------- *)

\* The goroutines that call AsyncLogger.Write.
Producers == {"p1", "p2"}

\* Byte slices handed to Write (lengths 0 and 2).
Payloads == {<< >>, <<97, 98>>}

\* What the user-supplied handle does: it is nil, it returns, or it never
\* returns.
HandleKinds == {"nil", "returns", "never"}

None == [id |-> 0, by |-> "none", data |-> << >>]

VARIABLES
    size,       \* AsyncLogger.queue capacity: make(chan []byte, size)
    handle,     \* AsyncLogger.handle, by its behaviour (HandleKinds)
    queue,      \* the channel's buffer, oldest first
    wpc,        \* position of the goroutine running init()
    wcur,       \* the loop variable b of init()
    issued,     \* number of Write calls made so far
    ret,        \* the last (n, err) each producer got back from Write
    accepted,   \* history: entries the channel send took, in order
    dropped,    \* history: ids of the entries that hit the default branch
    delivered,  \* history: entries passed to handle, in call order
    active,     \* handle invocations in progress: [by, id]
    conf,       \* the Conf value: Console, Remote, Level, handle
    phase,      \* "conf" before New is called, "built" after, "exited"
    prior,      \* history: conf.handle at the moment New was called
    arg,        \* history: the handle argument New was called with
    logger,     \* what New returned: nop, console, remote, gate
    cores,      \* the remoteCore values, by logger handle
    parent,     \* history: the handle each derived handle came from
    added,      \* history: the fields given to the With that made it
    out,        \* the callback's last invocation: [to, payload]
    calls,      \* callback invocations made by the last emit
    invoked,    \* history: callbacks ever invoked
    stdout,     \* console lines written by the last emit
    last,       \* the last operation: [op, core, level]
    pending     \* SpecWrite: the call drawn at the start, not yet made

asyncVars == <<size, handle, queue, wpc, wcur, issued, ret, accepted,
               dropped, delivered, active>>

logVars == <<conf, phase, prior, arg, logger, cores, parent, added, out,
             calls, invoked, stdout, last, pending>>

vars == <<size, handle, queue, wpc, wcur, issued, ret, accepted,
          dropped, delivered, active, conf, phase, prior, arg, logger,
          cores, parent, added, out, calls, invoked, stdout, last, pending>>

(* ------------------------------ helpers ------------------------------- *)

Max(a, b) == IF a >= b THEN a ELSE b

Ids(s) == {s[i].id : i \in 1..Len(s)}

IsPrefix(s, t) == Len(s) <= Len(t) /\ SubSeq(t, 1, Len(s)) = s

(* ------------------------ logger: data domains ------------------------ *)

\* zapcore.Level values.
DebugLevel == -1
InfoLevel == 0
WarnLevel == 1
ErrorLevel == 2
DPanicLevel == 3
PanicLevel == 4
FatalLevel == 5

ZapLevels == DebugLevel..FatalLevel

\* A nil func(b []byte), and the callbacks a caller may supply.
NilHandle == "nil"
Callbacks == {"h1", "h2"}

\* A nil *Conf.
NilConf == [Console |-> FALSE, Remote |-> FALSE, Level |-> "<nil>",
            handle |-> NilHandle]

\* Values of Conf.Level: unset, blank, plain, padded, unparsable.
LevelStrings == {"", "  ", "debug", " warn ", "error", "fatal", "verbose"}

\* The Conf values a caller builds (handle is unexported: it starts nil).
Confs == [Console : BOOLEAN, Remote : BOOLEAN, Level : LevelStrings,
          handle : {NilHandle}]

\* zapcore.Field, as far as remoteCore reads it: Key, Type, String.
FieldUniverse ==
    { [Key |-> "trace_id", Type |-> "String", String |-> "abc123"],
      [Key |-> "TraceId",  Type |-> "String", String |-> "xyz"],
      [Key |-> "trace_id", Type |-> "Int64",  String |-> ""],
      [Key |-> "service",  Type |-> "String", String |-> "x"] }

FieldSeqs == UNION {[1..n -> FieldUniverse] : n \in 0..MaxFields}

\* The logger handles: the one New returns and two derived with With.
Handles == {"root", "a", "b"}

NoCore == [level |-> InfoLevel, handle |-> NilHandle, fields |-> << >>,
           used |-> FALSE]
NoLogger == [nop |-> TRUE, console |-> FALSE, remote |-> FALSE,
             gate |-> InfoLevel]
NoOut == [to |-> NilHandle, payload |-> << >>]
NoEmit == [op |-> "none", core |-> "root", level |-> InfoLevel]
NoCall == [core |-> "root", level |-> InfoLevel, caller |-> "",
           fields |-> << >>]

\* The logger part before anything is configured.
LogIdle ==
    /\ conf = NilConf
    /\ phase = "idle"
    /\ prior = NilHandle
    /\ arg = NilHandle
    /\ logger = NoLogger
    /\ cores = [h \in Handles |-> NoCore]
    /\ parent = [h \in Handles |-> h]
    /\ added = [h \in Handles |-> << >>]
    /\ out = NoOut
    /\ calls = 0
    /\ invoked = {}
    /\ stdout = 0
    /\ last = NoEmit
    /\ pending = NoCall

\* The relay part when no AsyncLogger is built.
AsyncIdle ==
    /\ size = 0
    /\ handle = "nil"
    /\ queue = << >>
    /\ wpc = "none"
    /\ wcur = None
    /\ issued = 0
    /\ ret = [p \in Producers |-> << >>]
    /\ accepted = << >>
    /\ dropped = {}
    /\ delivered = << >>
    /\ active = {}

(* ---------------------------- AsyncLogger ----------------------------- *)

\* append([]byte(nil), p...): a fresh slice holding p's bytes.
CopyBytes(p) == [i \in 1..Len(p) |-> p[i]]

\* NewAsyncLogger(size, handle): an empty channel of the given capacity and
\* the consumer goroutine started, not yet at its first receive.
InitAsync ==
    /\ size \in 0..MaxSize
    /\ handle \in HandleKinds
    /\ queue = << >>
    /\ wpc = "recv"
    /\ wcur = None
    /\ issued = 0
    /\ ret = [p \in Producers |-> << >>]
    /\ accepted = << >>
    /\ dropped = {}
    /\ delivered = << >>
    /\ active = {}
    /\ LogIdle

\* The send case of Write's select is ready: a receiver is parked on the
\* channel, or the buffer has room.
CanSend == wpc = "parked" \/ Len(queue) < size

\* case l.queue <- e: handed straight to a parked receiver, else buffered.
Send(e) ==
    /\ IF wpc = "parked"
          THEN /\ wpc' = "got"
               /\ wcur' = e
               /\ queue' = queue
          ELSE /\ queue' = Append(queue, e)
               /\ UNCHANGED <<wpc, wcur>>
    /\ accepted' = Append(accepted, e)
    /\ UNCHANGED <<dropped, delivered, active>>

\* A default branch that would deliver synchronously on the caller's
\* goroutine instead of dropping.
DefaultCallsHandle(e) ==
    /\ dropped' = dropped
    /\ delivered' = IF handle = "nil" THEN delivered ELSE Append(delivered, e)
    /\ active' = IF handle = "nil" THEN active
                 ELSE active \cup {[by |-> e.by, id |-> e.id]}
    /\ UNCHANGED <<queue, wpc, wcur, accepted>>

\* default: the payload is dropped.
Default(e) ==
    /\ dropped' = dropped \cup {e.id}
    /\ UNCHANGED <<queue, wpc, wcur, accepted, delivered, active>>

\* A Write whose send is not under select/default: it waits for room.
WriteBlocking(p, b) ==
    /\ issued < MaxWrites
    /\ CanSend
    /\ Send([id |-> issued + 1, by |-> p, data |-> CopyBytes(b)])
    /\ issued' = issued + 1
    /\ ret' = [ret EXCEPT ![p] = <<Len(b), "nil">>]
    /\ UNCHANGED <<size, handle>>
    /\ UNCHANGED logVars

\* func (l *AsyncLogger) Write(p []byte) (n int, err error)
Write(p, b) ==
    /\ issued < MaxWrites
    /\ LET e == [id |-> issued + 1, by |-> p, data |-> CopyBytes(b)]
       IN  IF CanSend THEN Send(e) ELSE Default(e)
    /\ issued' = issued + 1
    /\ ret' = [ret EXCEPT ![p] = <<Len(b), "nil">>]
    /\ UNCHANGED <<size, handle>>
    /\ UNCHANGED logVars

\* A receive that takes the newest buffered entry.
RecvElemNewest(q) == q[Len(q)]

\* for b := range l.queue: the receive takes the oldest buffered entry.
RecvElem(q) == Head(q)

\* The consumer receives from a non-empty buffer.
WorkerRecv ==
    /\ wpc = "recv"
    /\ queue # << >>
    /\ wcur' = RecvElem(queue)
    /\ queue' = Tail(queue)
    /\ wpc' = "got"
    /\ UNCHANGED <<size, handle, issued, ret, accepted, dropped, delivered,
                   active>>
    /\ UNCHANGED logVars

\* The consumer finds the buffer empty and parks in the receive.
WorkerPark ==
    /\ wpc = "recv"
    /\ queue = << >>
    /\ wpc' = "parked"
    /\ UNCHANGED <<size, handle, queue, wcur, issued, ret, accepted, dropped,
                   delivered, active>>
    /\ UNCHANGED logVars

\* A consumer that starts handle on another goroutine and goes on.
WorkerCallAsync ==
    /\ wpc = "got"
    /\ IF handle = "nil"
          THEN UNCHANGED <<delivered, active>>
          ELSE /\ delivered' = Append(delivered, wcur)
               /\ active' = active \cup {[by |-> "worker", id |-> wcur.id]}
    /\ wpc' = "recv"
    /\ wcur' = None
    /\ UNCHANGED <<size, handle, queue, issued, ret, accepted, dropped>>
    /\ UNCHANGED logVars

\* if l.handle != nil { l.handle(b) }: the call is entered.
WorkerCall ==
    /\ wpc = "got"
    /\ IF handle = "nil"
          THEN /\ wpc' = "recv"
               /\ wcur' = None
               /\ UNCHANGED <<delivered, active>>
          ELSE /\ wpc' = "handle"
               /\ wcur' = wcur
               /\ delivered' = Append(delivered, wcur)
               /\ active' = active \cup {[by |-> "worker", id |-> wcur.id]}
    /\ UNCHANGED <<size, handle, queue, issued, ret, accepted, dropped>>
    /\ UNCHANGED logVars

\* A consumer that leaves its loop after the first payload.
HandleReturnExit ==
    /\ wpc = "handle"
    /\ handle = "returns"
    /\ active' = active \ {[by |-> "worker", id |-> wcur.id]}
    /\ wcur' = None
    /\ wpc' = "exited"
    /\ UNCHANGED <<size, handle, queue, issued, ret, accepted, dropped,
                   delivered>>
    /\ UNCHANGED logVars

\* handle(b) returns; the loop goes back to the receive.
HandleReturn ==
    /\ wpc = "handle"
    /\ handle = "returns"
    /\ active' = active \ {[by |-> "worker", id |-> wcur.id]}
    /\ wcur' = None
    /\ wpc' = "recv"
    /\ UNCHANGED <<size, handle, queue, issued, ret, accepted, dropped,
                   delivered>>
    /\ UNCHANGED logVars

\* The goroutine started by NewAsyncLogger.
Worker == WorkerRecv \/ WorkerPark \/ WorkerCall \/ HandleReturn

NextAsync ==
    \/ \E p \in Producers, b \in Payloads : Write(p, b)
    \/ WorkerRecv
    \/ WorkerPark
    \/ WorkerCall
    \/ HandleReturn

SpecAsync == InitAsync /\ [][NextAsync]_vars

\* The Go scheduler runs every runnable goroutine: the consumer keeps
\* taking steps while it has one to take.
SpecAsyncFair == SpecAsync /\ WF_vars(Worker)

(* ------------------------ claims on AsyncLogger ----------------------- *)

QueueFull == ~CanSend

\* What every Write step does: it returns (len(p), nil), and on a full
\* queue it drops the payload and leaves the channel and the consumer as
\* they were.
C1_WriteStep ==
    \A p \in Producers, b \in Payloads :
        Write(p, b) =>
            /\ ret'[p] = <<Len(b), "nil">>
            /\ issued' = issued + 1
            /\ QueueFull =>
                  /\ queue' = queue
                  /\ wpc' = wpc
                  /\ wcur' = wcur
                  /\ accepted' = accepted
                  /\ delivered' = delivered
                  /\ dropped' = dropped \cup {issued + 1}

\* C1: Write never blocks and never fails. In every reachable state of the
\* relay every producer can complete a Write of any payload in one step;
\* the step returns (len(p), nil); and when the queue is full the payload
\* is dropped, the queue contents are unchanged, and the caller sees the
\* same success.
C1_WriteNeverBlocks ==
    /\ [](issued < MaxWrites =>
            \A p \in Producers, b \in Payloads : ENABLED Write(p, b))
    /\ [][C1_WriteStep]_vars

\* C1 witness: with the consumer stuck inside handle and the buffer full,
\* a Write of a two-byte payload was dropped and returned (2, nil).
C1_Witness ==
    /\ size > 0
    /\ Len(queue) = size
    /\ wpc = "handle"
    /\ handle = "never"
    /\ dropped # {}
    /\ \E p \in Producers : ret[p] = <<2, "nil">>

\* C2 as stated: with a callback that never returns, at most K = size
\* payloads are ever passed to the callback.
C2_AtMostK == handle = "never" => Len(delivered) <= size

\* C2 amended: with a callback that never returns, at most max(K, 1)
\* payloads are ever passed to the callback (the consumer takes one payload
\* and stays inside the callback), and at most K + 1 are accepted.
C2_AtMostMaxK1 ==
    handle = "never" =>
        /\ Len(delivered) <= Max(size, 1)
        /\ Len(accepted) <= size + 1

\* C2 witness: K + M writes with M > 1 were issued against a stuck
\* callback: one payload is inside the callback, K are buffered, the rest
\* were dropped.
C2_Witness ==
    /\ handle = "never"
    /\ issued > size + 1
    /\ Len(delivered) = 1
    /\ Len(queue) = size
    /\ dropped # {}

\* C3: FIFO delivery. The payloads passed to handle are a prefix of the
\* payloads accepted into the queue, in acceptance order; so each
\* producer's delivered payloads are in its Write order, no payload is
\* delivered twice, and a dropped payload is never delivered.
C3_Fifo ==
    /\ IsPrefix(delivered, accepted)
    /\ \A i, j \in 1..Len(delivered) :
          /\ i < j => delivered[i].id < delivered[j].id
          /\ i # j => delivered[i].id # delivered[j].id
    /\ Ids(delivered) \cap dropped = {}
    /\ Ids(accepted) \cap dropped = {}

\* C3 witness: three payloads were delivered in order around a drop.
C3_Witness ==
    /\ Len(delivered) >= 3
    /\ dropped # {}
    /\ \E d \in dropped : delivered[1].id < d /\ d < delivered[3].id

\* C4: serialized delivery. At most one invocation of handle is in
\* progress at any time, and every invocation is made by the consumer
\* goroutine, never by a producer inside Write.
C4_Serialized ==
    /\ Cardinality(active) <= 1
    /\ \A a \in active : a.by = "worker"
    /\ active # {} <=> wpc = "handle"

\* C4 witness: both producers have written, a payload was dropped on a
\* full queue, and an invocation of handle is in progress.
C4_Witness ==
    /\ active # {}
    /\ dropped # {}
    /\ \A p \in Producers : ret[p] # << >>

Held(i) == i \in Ids(queue) \/ wcur.id = i

\* C10: eventual delivery. With a handle that always returns and a fairly
\* scheduled consumer, every payload accepted into the queue is eventually
\* passed to handle and no longer held by the relay, and once the
\* producers have stopped the queue becomes empty with the consumer idle.
C10_EventualDelivery ==
    /\ \A i \in 1..MaxWrites :
          (handle = "returns" /\ i \in Ids(accepted))
              ~> (i \in Ids(delivered) /\ ~Held(i))
    /\ (handle = "returns" /\ issued = MaxWrites)
              ~> (queue = << >> /\ wpc = "parked" /\ active = {})

\* C10 witness: every write was issued, one was dropped, the accepted ones
\* were all delivered and the relay holds nothing.
C10_Witness ==
    /\ handle = "returns"
    /\ issued = MaxWrites
    /\ dropped # {}
    /\ Len(delivered) = Len(accepted)
    /\ Len(delivered) >= 2
    /\ queue = << >>
    /\ wpc = "parked"

(* ----------------------------- remoteCore ----------------------------- *)

\* The level as NewJsonCore's encoder writes it: zapcore.Level.String(),
\* the lower-case name.
LevelString(level) ==
    CASE level = DebugLevel  -> "debug"
      [] level = InfoLevel   -> "info"
      [] level = WarnLevel   -> "warn"
      [] level = ErrorLevel  -> "error"
      [] level = DPanicLevel -> "dpanic"
      [] level = PanicLevel  -> "panic"
      [] level = FatalLevel  -> "fatal"

\* levelToInt(level string) of the JSON path: the same table keyed by
\* zap's lower-case level names.
levelToIntString(name) ==
    CASE name = "info"  -> 1
      [] name = "warn"  -> 3
      [] name = "error" -> 4
      [] name = "panic" -> 5
      [] name = "debug" -> 6
      [] OTHER          -> 0

\* A mapping that follows the severity order.
levelToIntMonotonic(level) ==
    CASE level = DebugLevel -> 0
      [] level = InfoLevel  -> 1
      [] level = WarnLevel  -> 2
      [] level = ErrorLevel -> 3
      [] level = PanicLevel -> 5
      [] OTHER              -> 0

\* func levelToInt(level zapcore.Level) int
levelToInt(level) ==
    CASE level = InfoLevel  -> 1
      [] level = WarnLevel  -> 3
      [] level = ErrorLevel -> 4
      [] level = PanicLevel -> 5
      [] level = DebugLevel -> 6
      [] OTHER              -> 0

\* NewRemoteCore(level, handle)
NewRemoteCore(level, h) ==
    [level |-> level, handle |-> h, fields |-> << >>, used |-> TRUE]

\* An Enabled that lets every level through.
remoteCoreEnabledAll(c, level) == TRUE

\* func (c *remoteCore) Enabled(level): c.level.Enabled(level), the
\* AtomicLevel's level <= the record's.
remoteCoreEnabled(c, level) == level >= c.level

\* append([]zapcore.Field(nil), fs...): a fresh slice with fs's elements.
CopyFields(fs) == [i \in 1..Len(fs) |-> fs[i]]

\* func (c *remoteCore) With(fields): c itself for no fields, else a copy
\* of *c with c.fields copied and the new fields appended.
remoteCoreWith(c, fs) ==
    IF Len(fs) = 0 THEN c
    ELSE [c EXCEPT !.fields = CopyFields(c.fields) \o fs]

\* func (c *remoteCore) Check(entry, ce): whether c is added to ce.
remoteCoreCheck(c, entry) == remoteCoreEnabled(c, entry.Level)

\* allFields of Write: the call's fields, after the standing ones if any.
MergeFields(c, fs) ==
    IF Len(c.fields) # 0 THEN CopyFields(c.fields) \o fs ELSE fs

IsTraceField(f) ==
    (f.Key = "trace_id" \/ f.Key = "TraceId") /\ f.Type = "String"

\* A scan without the break: the last match wins.
RECURSIVE ScanTraceIdLast(_, _, _)
ScanTraceIdLast(all, k, found) ==
    IF k > Len(all) THEN found
    ELSE ScanTraceIdLast(all, k + 1,
                         IF IsTraceField(all[k]) THEN all[k].String ELSE found)

ExtractTraceIdLast(all) == ScanTraceIdLast(all, 1, "")

\* The loop of Write over allFields, from index k on: the first string
\* field named trace_id or TraceId, then break.
RECURSIVE ScanTraceId(_, _)
ScanTraceId(all, k) ==
    IF k > Len(all) THEN ""
    ELSE IF IsTraceField(all[k]) THEN all[k].String
    ELSE ScanTraceId(all, k + 1)

ExtractTraceId(all) == ScanTraceId(all, 1)

\* entry.Caller.TrimmedPath() when the caller is defined, else "".
EntryPath(entry) == IF entry.Caller # "" THEN <<"trimmed", entry.Caller>> ELSE ""

\* entry.Time.Format(time.DateTime)
FormatDateTime(t) == <<"2006-01-02 15:04:05", t>>

\* json.Marshal(&remoteLog{...}): the members in declaration order under
\* their json names. It cannot fail for strings and an int.
MarshalRemoteLog(path, level, content, traceId, createdAt) ==
    << <<"Path", path>>, <<"Level", level>>, <<"Content", content>>,
       <<"TraceId", traceId>>, <<"CreatedAt", createdAt>> >>

\* The value of a key in a marshalled payload.
JsonGet(payload, key) ==
    LET I == {i \in 1..Len(payload) : payload[i][1] = key}
    IN  payload[CHOOSE i \in I : TRUE][2]

\* func (c *remoteCore) Write(entry, fields): the callback invocations it
\* makes (none with a nil handle) and the payload.
remoteCoreWrite(c, entry, fs) ==
    IF c.handle = NilHandle
       THEN [n |-> 0, to |-> NilHandle, payload |-> << >>]
       ELSE [n |-> 1, to |-> c.handle,
             payload |-> MarshalRemoteLog(
                 EntryPath(entry),
                 levelToInt(entry.Level),
                 entry.Message,
                 ExtractTraceId(MergeFields(c, fs)),
                 FormatDateTime(entry.Time))]

\* What zap does with one record for one remoteCore: Check, then Write on
\* the cores Check added.
CoreEmitResult(c, entry, fs) ==
    IF remoteCoreCheck(c, entry)
       THEN remoteCoreWrite(c, entry, fs)
       ELSE [n |-> 0, to |-> NilHandle, payload |-> << >>]

\* The record of one callback invocation result in the state.
Deliver(r) ==
    /\ calls' = r.n
    /\ out' = IF r.n > 0 THEN [to |-> r.to, payload |-> r.payload] ELSE out
    /\ invoked' = IF r.n > 0 THEN invoked \cup {r.to} ELSE invoked

(* -------------------------- Conf and New ------------------------------ *)

\* strings.TrimSpace on the Conf.Level values.
TrimSpace(str) ==
    CASE str = "  "     -> ""
      [] str = " warn " -> "warn"
      [] OTHER          -> str

\* zapcore.ParseLevel: the level names it knows.
ParseLevel(str) ==
    CASE str = "debug"  -> [ok |-> TRUE, level |-> DebugLevel]
      [] str = "info"   -> [ok |-> TRUE, level |-> InfoLevel]
      [] str = ""       -> [ok |-> TRUE, level |-> InfoLevel]
      [] str = "warn"   -> [ok |-> TRUE, level |-> WarnLevel]
      [] str = "error"  -> [ok |-> TRUE, level |-> ErrorLevel]
      [] str = "dpanic" -> [ok |-> TRUE, level |-> DPanicLevel]
      [] str = "panic"  -> [ok |-> TRUE, level |-> PanicLevel]
      [] str = "fatal"  -> [ok |-> TRUE, level |-> FatalLevel]
      [] OTHER          -> [ok |-> FALSE, level |-> InfoLevel]

\* The level New computes: info unless Conf.Level, trimmed, is non-empty
\* and parses.
ConfLevel(c) ==
    IF TrimSpace(c.Level) # "" /\ ParseLevel(TrimSpace(c.Level)).ok
       THEN ParseLevel(TrimSpace(c.Level)).level
       ELSE InfoLevel

InitLogger ==
    /\ conf \in Confs \cup {NilConf}
    /\ phase = "conf"
    /\ prior = NilHandle
    /\ arg = NilHandle
    /\ logger = NoLogger
    /\ cores = [h \in Handles |-> NoCore]
    /\ parent = [h \in Handles |-> h]
    /\ added = [h \in Handles |-> << >>]
    /\ out = NoOut
    /\ calls = 0
    /\ invoked = {}
    /\ stdout = 0
    /\ last = NoEmit
    /\ pending = NoCall
    /\ AsyncIdle

\* func (c *Conf) WithHandle(handle)
WithHandle(h) ==
    /\ phase = "conf"
    /\ conf # NilConf
    /\ conf' = [conf EXCEPT !.handle = h]
    /\ UNCHANGED <<phase, prior, arg, logger, cores, parent, added, out,
                   calls, invoked, stdout, last, pending>>
    /\ UNCHANGED asyncVars

\* The rest of New once the handle is settled: the cores by Console and by
\* install, zap.NewNop() when there is none, else the Tee of them.
Compose(console, install, level, h) ==
    /\ logger' = [nop |-> ~(console \/ install), console |-> console,
                  remote |-> install, gate |-> level]
    /\ cores' = IF install
                   THEN [cores EXCEPT !["root"] = NewRemoteCore(level, h)]
                   ELSE cores

\* func New(conf, handle) of logger.go: the argument first, else
\* conf.handle.
New(h) ==
    /\ phase = "conf"
    /\ phase' = "built"
    /\ prior' = conf.handle
    /\ arg' = h
    /\ IF conf = NilConf
          THEN /\ conf' = conf
               /\ logger' = NoLogger
               /\ cores' = cores
          ELSE LET effectiveHandle == IF h = NilHandle THEN conf.handle ELSE h
               IN  /\ conf' = [conf EXCEPT !.handle = effectiveHandle]
                   /\ Compose(conf.Console,
                              conf.Remote /\ effectiveHandle # NilHandle,
                              ConfLevel(conf), effectiveHandle)
    /\ UNCHANGED <<parent, added, out, calls, invoked, stdout, last, pending>>
    /\ UNCHANGED asyncVars

\* func New(conf, handle) of the other revision: conf.handle is replaced
\* by the argument only when it was already set, and the core gets the
\* argument.
NewGuarded(h) ==
    /\ phase = "conf"
    /\ phase' = "built"
    /\ prior' = conf.handle
    /\ arg' = h
    /\ IF conf = NilConf
          THEN /\ conf' = conf
               /\ logger' = NoLogger
               /\ cores' = cores
          ELSE LET handle2 == IF conf.handle # NilHandle THEN h ELSE conf.handle
               IN  /\ conf' = [conf EXCEPT !.handle = handle2]
                   /\ Compose(conf.Console,
                              conf.Remote /\ handle2 # NilHandle,
                              ConfLevel(conf), h)
    /\ UNCHANGED <<parent, added, out, calls, invoked, stdout, last, pending>>
    /\ UNCHANGED asyncVars

\* The console core: it writes one line for a record at or above the
\* shared gate and never calls a delivery callback.
ConsoleLines(level) ==
    IF ~logger.nop /\ logger.console /\ level >= logger.gate THEN 1 ELSE 0

\* The zapcore.Entry of a call: zap.AddCaller() defines the caller.
LoggerEntry(level) ==
    [Level |-> level, Message |-> "hello", Caller |-> "logger_test.go:95",
     Time |-> "now"]

\* New has returned a logger (and a Fatal record may have ended the
\* process since).
Built == phase \in {"built", "exited"}

\* logger.Debug / Info / Warn / Error / DPanic / Panic / Fatal (msg,
\* fields...) on the logger New returned: the Tee hands the record to
\* each core; after the cores have written, Fatal exits the process.
Emit(level, fs) ==
    /\ phase = "built"
    /\ phase' = IF level = FatalLevel THEN "exited" ELSE "built"
    /\ Deliver(IF ~logger.nop /\ logger.remote
                  THEN CoreEmitResult(cores["root"], LoggerEntry(level), fs)
                  ELSE [n |-> 0, to |-> NilHandle, payload |-> << >>])
    /\ stdout' = ConsoleLines(level)
    /\ last' = [op |-> "emit", core |-> "root", level |-> level]
    /\ UNCHANGED <<conf, prior, arg, logger, cores, parent, added, pending>>
    /\ UNCHANGED asyncVars

NextLogger ==
    \/ \E h \in Callbacks \cup {NilHandle} : WithHandle(h)
    \/ \E h \in Callbacks \cup {NilHandle} : New(h)
    \/ \E h \in Callbacks \cup {NilHandle} : NewGuarded(h)
    \/ \E level \in ZapLevels, fs \in FieldSeqs : Emit(level, fs)

SpecLogger == InitLogger /\ [][NextLogger]_vars

(* --------------------- remoteCore and its handles --------------------- *)

\* The level a remoteCore is built with here, the levels of the records
\* sent through it, and the callers of an entry ("" when
\* entry.Caller.Defined is false).
CoreGates == {InfoLevel}
CoreLevels == {DebugLevel, InfoLevel}
Callers == {"", "svc/main.go:42"}

InitCore ==
    /\ \E level \in CoreGates, h \in {NilHandle, "h1"} :
          /\ cores = [x \in Handles |->
                        IF x = "root" THEN NewRemoteCore(level, h) ELSE NoCore]
          /\ logger = [nop |-> FALSE, console |-> FALSE, remote |-> TRUE,
                       gate |-> level]
    /\ conf = NilConf
    /\ phase = "core"
    /\ prior = NilHandle
    /\ arg = NilHandle
    /\ parent = [x \in Handles |-> x]
    /\ added = [x \in Handles |-> << >>]
    /\ out = NoOut
    /\ calls = 0
    /\ invoked = {}
    /\ stdout = 0
    /\ last = NoEmit
    /\ pending = NoCall
    /\ AsyncIdle

\* The handle a With result is held by: the receiver's own when With
\* returns c, else the next unused one.
NewHandle == IF ~cores["a"].used THEN "a" ELSE "b"

\* A With that appends to the receiver's own slice before copying *c.
CoresAfterWithShared(i, j, fs) ==
    [cores EXCEPT ![i] = [@ EXCEPT !.fields = @ \o fs],
                  ![j] = [cores[i] EXCEPT !.fields = @ \o fs]]

\* With's effect on the cores: *c is copied into next, next.fields is the
\* fresh concatenation, and &next is what the new handle holds.
CoresAfterWith(i, j, fs) ==
    [cores EXCEPT ![j] = remoteCoreWith(cores[i], fs)]

\* c.With(fields) on the core of handle i.
CoreWith(i, fs) ==
    /\ phase = "core"
    /\ cores[i].used
    /\ IF Len(fs) = 0
          THEN /\ last' = [op |-> "with", core |-> i, level |-> InfoLevel]
               /\ UNCHANGED <<cores, parent, added>>
          ELSE /\ \E x \in Handles : ~cores[x].used
               /\ cores' = CoresAfterWith(i, NewHandle, fs)
               /\ parent' = [parent EXCEPT ![NewHandle] = i]
               /\ added' = [added EXCEPT ![NewHandle] = fs]
               /\ last' = [op |-> "with", core |-> NewHandle,
                           level |-> InfoLevel]
    /\ calls' = 0
    /\ UNCHANGED <<conf, phase, prior, arg, logger, out, invoked, stdout,
                   pending>>
    /\ UNCHANGED asyncVars

\* One record through the core of handle i: Check, then Write.
CoreEmit(i, level, caller, fs) ==
    /\ phase = "core"
    /\ cores[i].used
    /\ Deliver(CoreEmitResult(cores[i],
                              [Level |-> level, Message |-> "hello",
                               Caller |-> caller, Time |-> "now"],
                              fs))
    /\ last' = [op |-> "emit", core |-> i, level |-> level]
    /\ UNCHANGED <<conf, phase, prior, arg, logger, cores, parent, added,
                   stdout, pending>>
    /\ UNCHANGED asyncVars

NextCore ==
    \/ \E i \in Handles, fs \in FieldSeqs : CoreWith(i, fs)
    \/ \E i \in Handles, level \in CoreLevels, fs \in FieldSeqs :
          CoreEmit(i, level, "svc/main.go:42", fs)

SpecCore == InitCore /\ [][NextCore]_vars

(* ------------------- remoteCore.Write on drawn inputs ----------------- *)

\* A root core, handle a derived from it and handle b derived from a, with
\* any standing fields, and one call (handle, level, caller, call-site
\* fields) still to be made.
InitWrite ==
    /\ \E level \in CoreGates, h \in {NilHandle, "h1"}, s1, s2 \in FieldSeqs :
          LET root == NewRemoteCore(level, h)
              a == remoteCoreWith(root, s1)
              b == remoteCoreWith(a, s2)
          IN  /\ cores = [x \in Handles |->
                            IF x = "root" THEN root ELSE IF x = "a" THEN a ELSE b]
              /\ parent = [x \in Handles |-> IF x = "b" THEN "a" ELSE "root"]
              /\ added = [x \in Handles |->
                            IF x = "root" THEN << >> ELSE IF x = "a" THEN s1 ELSE s2]
              /\ logger = [nop |-> FALSE, console |-> FALSE, remote |-> TRUE,
                           gate |-> level]
    /\ pending \in [core : Handles, level : CoreLevels, caller : Callers,
                     fields : FieldSeqs]
    /\ conf = NilConf
    /\ phase = "core"
    /\ prior = NilHandle
    /\ arg = NilHandle
    /\ out = NoOut
    /\ calls = 0
    /\ invoked = {}
    /\ stdout = 0
    /\ last = NoEmit
    /\ AsyncIdle

\* The drawn call is made.
WritePending ==
    /\ last.op = "none"
    /\ CoreEmit(pending.core, pending.level, pending.caller, pending.fields)

NextWrite == WritePending

SpecWrite == InitWrite /\ [][NextWrite]_vars

(* ------------------- claims on New and the remote sink ---------------- *)

\* The callback the claims call available: New's argument, or otherwise
\* the one set earlier with WithHandle.
AvailableHandle == IF arg # NilHandle THEN arg ELSE prior

\* The minimum severity a Conf configures, written out for each value of
\* Conf.Level used here (info by default and for an unparsable value).
ConfiguredMinimum ==
    CASE conf.Level = "debug"  -> DebugLevel
      [] conf.Level = " warn " -> WarnLevel
      [] conf.Level = "error"  -> ErrorLevel
      [] conf.Level = "fatal"  -> FatalLevel
      [] OTHER                 -> InfoLevel

\* C5: remote sink installation and no-op safety. For every Conf passed
\* to New the remote sink is installed, with the available callback, if
\* and only if Remote is true and a callback is available; a callback is
\* only ever invoked in that case; and in that case an emit at or above
\* the minimum severity (an Info emit under the default) invokes it.
C5_RemoteIffAvailable ==
    (Built /\ conf # NilConf) =>
        /\ logger.remote <=> (conf.Remote /\ AvailableHandle # NilHandle)
        /\ logger.remote => cores["root"].handle = AvailableHandle
        /\ invoked \subseteq
              (IF conf.Remote /\ AvailableHandle # NilHandle
                  THEN {AvailableHandle} ELSE {})
        /\ ( /\ conf.Remote
             /\ AvailableHandle # NilHandle
             /\ last.op = "emit"
             /\ last.level >= ConfiguredMinimum )
           => (calls = 1 /\ out.to = AvailableHandle)

\* C6: exactly-once forwarding under the severity gate. With the remote
\* sink installed, a record at or above the configured minimum causes
\* exactly one invocation of the core's callback and a record below it
\* none, whether or not the console sink is enabled too.
C6_ExactlyOnce ==
    (Built /\ logger.remote /\ last.op = "emit") =>
        /\ calls = (IF last.level >= ConfiguredMinimum THEN 1 ELSE 0)
        /\ calls = 1 => out.to = cores["root"].handle

\* C6 witness: console and remote are both enabled and one Info record
\* reached each of them once.
C6_Witness ==
    /\ phase = "built"
    /\ logger.console
    /\ logger.remote
    /\ last.op = "emit"
    /\ last.level = InfoLevel
    /\ calls = 1
    /\ stdout = 1

\* The level codes of the envelope, as the specification lists them.
SeverityCode(level) ==
    CASE level = DebugLevel -> 6
      [] level = InfoLevel  -> 1
      [] level = WarnLevel  -> 3
      [] level = ErrorLevel -> 4
      [] level = PanicLevel -> 5
      [] OTHER              -> 0

\* C7: severity mapping. The Level of the envelope the remote sink
\* delivers is debug->6, info->1, warn->3, error->4, panic->5 and 0 for
\* every other severity, whatever the configured minimum, the fields and
\* the earlier emits; the string-keyed levelToInt gives the same codes.
C7_SeverityMapping ==
    /\ (Built /\ last.op = "emit" /\ calls = 1) =>
          JsonGet(out.payload, "Level") = SeverityCode(last.level)
    /\ Built =>
          \A level \in ZapLevels :
              levelToIntString(LevelString(level)) = SeverityCode(level)

\* C7 witness: with the minimum configured as debug, a debug record was
\* delivered with Level 6.
C7_Witness ==
    /\ phase = "built"
    /\ conf.Level = "debug"
    /\ last.op = "emit"
    /\ last.level = DebugLevel
    /\ calls = 1
    /\ JsonGet(out.payload, "Level") = 6

(* ----------------------- claims on remoteCore ------------------------- *)

\* The indexes of the fields a trace id may be taken from.
TraceMatches(all) ==
    {k \in 1..Len(all) :
        /\ all[k].Key \in {"trace_id", "TraceId"}
        /\ all[k].Type = "String"}

\* The value of the first such field, "" when there is none.
FirstTraceId(all) ==
    IF TraceMatches(all) = {} THEN ""
    ELSE all[CHOOSE k \in TraceMatches(all) :
                 \A m \in TraceMatches(all) : k <= m].String

RECURSIVE PathFields(_)
PathFields(x) ==
    IF x = "root" THEN << >> ELSE PathFields(parent[x]) \o added[x]

\* C9, in every state: each handle's standing fields are exactly the
\* fields of the With calls on its own path from the root, so siblings
\* carry nothing of each other.
C9_OwnFields ==
    \A x \in Handles : cores[x].used => cores[x].fields = PathFields(x)

\* C9, in every step: a With leaves every existing handle as it was and
\* gives the new one the original's fields followed by the new fields; an
\* emit changes no handle.
C9_Frame ==
    /\ \A x \in Handles : cores[x].used => cores'[x] = cores[x]
    /\ \A x \in Handles :
          (~cores[x].used /\ cores'[x].used) =>
              cores'[x].fields = cores[parent'[x]].fields \o added'[x]
    /\ last'.op = "emit" => cores' = cores

\* C9: derived-handle isolation.
C9_Isolation == [][C9_Frame]_vars /\ []C9_OwnFields

\* C9 witness: two siblings derived from the root with different fields,
\* after a record was delivered through one of them.
C9_Witness ==
    /\ cores["a"].used
    /\ cores["b"].used
    /\ parent["a"] = "root"
    /\ parent["b"] = "root"
    /\ added["a"] # added["b"]
    /\ last.op = "emit"
    /\ last.core = "a"
    /\ calls = 1

====
